---- MODULE Spec2Model ----
(***************************************************************************)
(* Model of bin/bulkrefs.py: the range-extraction entry point (cli), the   *)
(* month iterator (year_month_iter), the per-month stage                   *)
(* (extract_refs_for_month), the per-archive stage                         *)
(* (extract_refs_for_tarfile) and the per-document task                    *)
(* (extract_refs_for_pdf); and of bin/pdfdownload.py: the direct-download  *)
(* entry point (its cli).                                                  *)
(*                                                                         *)
(* Strings are sequences of one-character strings, so that formatting and  *)
(* str.startswith are computed and not assumed.                            *)
(***************************************************************************)
EXTENDS Integers, Sequences, FiniteSets, TLC

(***************************************************************************)
(* Bounds of the model.                                                    *)
(***************************************************************************)
\* year_month_iter is explored for MaxYears years, from 2019 on
MaxYears == 3
\* the cli is explored for empty ranges and for a range of MaxSpan months
MaxSpan == 2
\* the archives of a run unpack to up to MaxDocs documents in all
MaxDocs == 2

(***************************************************************************)
(* Program constants.                                                      *)
(***************************************************************************)
NUM_DOWNLOAD_THREADS == 4

(***************************************************************************)
(* Text: "{}".format(int), "{:02d}".format(int), str.startswith.           *)
(***************************************************************************)
DigitChar(d) == <<"0", "1", "2", "3", "4", "5", "6", "7", "8", "9">>[d + 1]

RECURSIVE Decimal(_)
\* "{}".format(n) for n >= 0
Decimal(n) == IF n < 10 THEN <<DigitChar(n)>>
              ELSE Decimal(n \div 10) \o <<DigitChar(n % 10)>>

\* "{:02d}".format(n) for n >= 0: zero-padded to a width of at least 2
Pad2(n) == IF n < 10 THEN <<"0", DigitChar(n)>> ELSE Decimal(n)

\* s.startswith(p)
startswith(s, p) == /\ Len(p) <= Len(s)
                    /\ \A i \in 1..Len(p) : s[i] = p[i]

\* a plausible slip: "{}-{}".format(year, month), the month not padded
ym_prefix_unpadded(year, month) == Decimal(year) \o <<"-">> \o Decimal(month)

\* ym_prefix = "{}-{:02d}".format(year, month)
ym_prefix(year, month) == Decimal(year) \o <<"-">> \o Pad2(month)

\* str.replace(old, new) on a name cut into tokens: every occurrence is replaced
replace(s, old, new) == [i \in 1..Len(s) |-> IF s[i] = old THEN new ELSE s[i]]

(***************************************************************************)
(* year_month_iter: the encoded range and divmod.                          *)
(***************************************************************************)
ym_start(fy, fm) == 12 * fy + fm - 1

\* a plausible slip: the until month taken as inclusive
ym_end_inclusive(uy, um) == 12 * uy + um

ym_end(uy, um) == 12 * uy + um - 1

\* a plausible slip: the remainder yielded as the month, without the + 1
ym_decode_zero_based(ym) == <<ym \div 12, ym % 12>>

\* y, m = divmod(ym, 12); yield y, m + 1
ym_decode(ym) == <<ym \div 12, (ym % 12) + 1>>

VARIABLES
    from_year, from_month, until_year, until_month, \* the cli's range options
    already_downloaded,    \* cli: the set read from --already-downloaded-tars
    manifest,              \* what get_manifest returns: <<[filename, timestamp]>>
    pc,                    \* position of the main thread
    ym,                    \* year_month_iter: next value of range(ym_start, ym_end)
    yielded,               \* the (year, month) pairs year_month_iter has yielded
    tar_files_to_download, \* extract_refs_for_month: the filtered filenames
    tasks,                 \* the month's executor: one record per ex.submit call
    out,                   \* output files: <<refs_output_dir, file name>>
    dirs,                  \* the refs_output_dir directories made so far
    log,                   \* what the module logger has emitted
    attempted,             \* <<ym_prefix, tar>> of every extract_refs_for_tarfile call
    docs_left,             \* how many more documents the run's archives may hold
    opt_year, opt_month,   \* pdfdownload: --year, --month: <<>> for None, or <<n>>
    to_download            \* pdfdownload: the list given to download_check_tarfiles

rangeVars == <<from_year, from_month, until_year, until_month>>
inputVars == <<already_downloaded, manifest>>
monthVars == <<tar_files_to_download, tasks, out, dirs, log, attempted, docs_left>>
downloadVars == <<opt_year, opt_month, to_download>>
vars == <<downloadVars, rangeVars, inputVars, pc, ym, yielded, monthVars>>

\* pdfdownload's cli is not part of the run
download_idle == opt_year = <<>> /\ opt_month = <<>> /\ to_download = <<>>

Years == 2019 .. (2019 + MaxYears - 1)
Months == 1..12

(***************************************************************************)
(* year_month_iter, shared by both specifications.                         *)
(***************************************************************************)
\* a plausible slip: range(ym_start, ym_end + 1)
year_month_iter_yield_inclusive ==
    /\ ym <= ym_end(until_year, until_month)
    /\ yielded' = Append(yielded, ym_decode(ym))
    /\ ym' = ym + 1

\* one turn of "for ym in range(ym_start, ym_end)": yield the decoded pair
year_month_iter_yield ==
    /\ ym < ym_end(until_year, until_month)
    /\ yielded' = Append(yielded, ym_decode(ym))
    /\ ym' = ym + 1

\* the range is exhausted: the generator returns
year_month_iter_exhausted == ym >= ym_end(until_year, until_month)

(***************************************************************************)
(* SpecYM: year_month_iter on its own, for every range of Years x Months.  *)
(***************************************************************************)
InitYM ==
    /\ from_year \in Years /\ from_month \in Months
    /\ until_year \in Years /\ until_month \in Months
    /\ already_downloaded = {}
    /\ manifest = <<>>
    /\ pc = "iter"
    /\ ym = ym_start(from_year, from_month)
    /\ yielded = <<>>
    /\ tar_files_to_download = <<>>
    /\ tasks = <<>>
    /\ out = {}
    /\ dirs = {}
    /\ log = {}
    /\ attempted = {}
    /\ docs_left = 0
    /\ download_idle

IterYield ==
    /\ pc = "iter"
    /\ year_month_iter_yield
    /\ UNCHANGED <<downloadVars, rangeVars, inputVars, pc, monthVars>>

IterStop ==
    /\ pc = "iter"
    /\ year_month_iter_exhausted
    /\ pc' = "exhausted"
    /\ UNCHANGED <<downloadVars, rangeVars, inputVars, ym, yielded, monthVars>>

NextYM == IterYield \/ IterStop

SpecYM == InitYM /\ [][NextYM]_vars

(***************************************************************************)
(* The inputs of a run of the cli.                                         *)
(***************************************************************************)
\* the ranges explored: from 2020-12 until one month earlier, until the same
\* month and until MaxSpan months later; and the empty range 2020-01 .. 2020-01
Windows ==
    {<<2020, 12, p[1], p[2]>> : p \in
        {q \in (2020..2021) \X Months :
            (12 * q[1] + q[2] - 1) - (12 * 2020 + 11) \in {0 - 1, 0, MaxSpan}}}
    \cup {<<2020, 1, 2020, 1>>}

\* manifest timestamps: two months of the range, an unpadded month and a
\* timestamp shorter than the prefix
Timestamps ==
    { <<"2", "0", "2", "0", "-", "1", "2", "-", "0", "1">>,
      <<"2", "0", "2", "1", "-", "0", "1", "-", "1", "5">>,
      <<"2", "0", "2", "1", "-", "1", "-", "0", "1">>,
      <<"2", "0", "2", "0", "-", "1">> }

\* the archive names of the manifest, in manifest order
TarNames == <<"t1", "t2">>

\* manifests: the first n names, each with a timestamp
Manifests ==
    UNION {{[i \in 1..n |-> [filename |-> TarNames[i], timestamp |-> ts[i]]] :
              ts \in [1..n -> Timestamps]} : n \in 0..Len(TarNames)}

\* the documents an archive may hold: <subdirectory>/<base name>, the base name
\* cut into tokens
DocPool ==
    { [dir |-> "a", base |-> <<"x", ".pdf">>],
      [dir |-> "a", base |-> <<"y", ".pdf">>],
      [dir |-> "b", base |-> <<"x", ".pdf">>] }

\* every order of the members of S
Orders(S) == {f \in [1..Cardinality(S) -> S] : \A i, j \in DOMAIN f : f[i] = f[j] => i = j}

\* what glob("{}/*/*.pdf") can find after tar has run
Archives == {S \in SUBSET DocPool : Cardinality(S) <= MaxDocs}

(***************************************************************************)
(* Collaborators outside bin/: their outcomes, as the spec describes them. *)
(***************************************************************************)
\* s3_bulk_download.get_manifest: returns the manifest or raises
GetManifestOutcomes == {"ok", "raise"}

\* s3_bulk_download.download_file: returns after writing the file (its bytes
\* matching the manifest checksum or not) or raises
DownloadOutcomes == {"ok", "badsum", "raise"}

\* tar's exit status: subprocess.run is called without check
UnpackOutcomes == {"ok", "fail"}

\* a task run by pebble with a timeout: extract_refs_for_pdf returns ("done"),
\* refextract raises ("error"), the process is ended by the timeout during the
\* extraction call ("timeout") or after gzip.open made the file ("timeout_w")
PdfOutcomes == {"done", "error", "timeout", "timeout_w"}

(***************************************************************************)
(* extract_refs_for_pdf and extract_refs_for_month: the pure parts.        *)
(***************************************************************************)
\* a plausible slip: the output name made from the path below the workspace,
\* subdirectory included, instead of the base name
output_filename_keeps_dir(pdf) ==
    <<pdf.dir, "/">> \o replace(pdf.base, ".pdf", "-refs.json.gz")

\* os.path.basename(pdf_filename).replace('.pdf', '-refs.json.gz')
output_filename(pdf) == replace(pdf.base, ".pdf", "-refs.json.gz")

\* the list comprehension of extract_refs_for_month, front to back
RECURSIVE select_tar_files(_, _, _)
select_tar_files(m, prefix, already) ==
    IF m = <<>> THEN <<>>
    ELSE LET item == Head(m)
             rest == select_tar_files(Tail(m), prefix, already)
         IN  IF /\ startswith(item.timestamp, prefix)
                /\ item.filename \notin already
             THEN <<item.filename>> \o rest
             ELSE rest

\* the month extract_refs_for_month is running for
cur_prefix == ym_prefix(yielded[Len(yielded)][1], yielded[Len(yielded)][2])

Running(t) == t.st \in {"download", "unpack", "join"}
Ended(t) == t.st \in {"finished", "raised"}

(***************************************************************************)
(* Spec: a run of the cli.                                                 *)
(***************************************************************************)
Init ==
    /\ \E w \in Windows :
         /\ from_year = w[1] /\ from_month = w[2]
         /\ until_year = w[3] /\ until_month = w[4]
    /\ manifest \in Manifests
    /\ already_downloaded \in SUBSET {TarNames[i] : i \in 1..Len(TarNames)}
    /\ pc = "get_manifest"
    /\ ym = 0
    /\ yielded = <<>>
    /\ tar_files_to_download = <<>>
    /\ tasks = <<>>
    /\ out = {}
    /\ dirs = {}
    /\ log = {}
    /\ attempted = {}
    /\ docs_left = MaxDocs
    /\ download_idle

\* a plausible slip: the first month's directory made before the manifest is
\* asked for, so that a failed get_manifest leaves it behind
GetManifest_after_makedirs ==
    /\ pc = "get_manifest"
    /\ \E r \in GetManifestOutcomes :
         IF r = "ok"
         THEN /\ pc' = "months"
              /\ ym' = ym_start(from_year, from_month)
         ELSE /\ pc' = "aborted"
              /\ ym' = ym
    /\ dirs' = dirs \cup {ym_prefix(from_year, from_month)}
    /\ UNCHANGED <<downloadVars, rangeVars, inputVars, yielded,
                   tar_files_to_download, tasks, out, log, attempted, docs_left>>

\* cli, lines 43-53: get_manifest returns; year_month_iter is called
GetManifest ==
    /\ pc = "get_manifest"
    /\ \E r \in GetManifestOutcomes :
         IF r = "ok"
         THEN /\ pc' = "months"
              /\ ym' = ym_start(from_year, from_month)
         ELSE /\ pc' = "aborted"
              /\ ym' = ym
    /\ UNCHANGED <<downloadVars, rangeVars, inputVars, yielded, monthVars>>

\* cli, lines 54-67, and extract_refs_for_month, lines 78-93: the iterator
\* yields a month; the month's directory is made, the manifest is filtered and
\* the executor is created
StartMonth ==
    /\ pc = "months"
    /\ year_month_iter_yield
    /\ LET y == ym_decode(ym)[1]
           m == ym_decode(ym)[2]
       IN  /\ log' = log \cup {<<"info", "month", <<y, m>>, <<>>>>}
           /\ dirs' = dirs \cup {ym_prefix(y, m)}
           /\ tar_files_to_download' =
                select_tar_files(manifest, ym_prefix(y, m), already_downloaded)
    /\ tasks' = <<>>
    /\ pc' = "submit"
    /\ UNCHANGED <<downloadVars, rangeVars, inputVars, out, attempted, docs_left>>

\* cli: the iterator is exhausted and cli returns
EndMonths ==
    /\ pc = "months"
    /\ year_month_iter_exhausted
    /\ pc' = "done"
    /\ UNCHANGED <<downloadVars, rangeVars, inputVars, ym, yielded, monthVars>>

\* extract_refs_for_month, lines 94-99: one ex.submit
Submit ==
    /\ pc = "submit"
    /\ Len(tasks) < Len(tar_files_to_download)
    /\ tasks' = Append(tasks,
                  [s3_url |-> tar_files_to_download[Len(tasks) + 1],
                   output_dir |-> cur_prefix,
                   st |-> "queued", td |-> FALSE,
                   fetched |-> "-", unpacked |-> "-",
                   futures |-> <<>>])
    /\ UNCHANGED <<downloadVars, rangeVars, inputVars, pc, ym, yielded,
                   tar_files_to_download, out, dirs, log, attempted, docs_left>>

\* a plausible slip: the executor shut down with wait=False, so that the month
\* returns as soon as its archives are submitted
ExecutorExit_nowait ==
    /\ pc = "submit"
    /\ Len(tasks) = Len(tar_files_to_download)
    /\ pc' = "months"
    /\ UNCHANGED <<downloadVars, rangeVars, inputVars, ym, yielded, monthVars>>

\* extract_refs_for_month, line 93: leaving the with block is
\* shutdown(wait=True), which returns when every submitted task has ended
ExecutorExit ==
    /\ pc = "submit"
    /\ Len(tasks) = Len(tar_files_to_download)
    /\ \A i \in 1..Len(tasks) : Ended(tasks[i])
    /\ pc' = "months"
    /\ UNCHANGED <<downloadVars, rangeVars, inputVars, ym, yielded, monthVars>>

\* a plausible slip: a worker thread that dies with the exception of its task,
\* so that tasks queued behind a raised one are never taken
TaskStart_pool_broken(i) ==
    /\ tasks[i].st = "queued"
    /\ \A j \in 1..(i - 1) : tasks[j].st \notin {"queued", "raised"}
    /\ Cardinality({j \in 1..Len(tasks) : Running(tasks[j])}) < NUM_DOWNLOAD_THREADS
    /\ tasks' = [tasks EXCEPT ![i].st = "download", ![i].td = TRUE]
    /\ log' = log \cup {<<"info", "tarfile", tasks[i].s3_url, <<>>>>}
    /\ attempted' = attempted \cup {<<tasks[i].output_dir, tasks[i].s3_url>>}
    /\ UNCHANGED <<downloadVars, rangeVars, inputVars, pc, ym, yielded,
                   tar_files_to_download, out, dirs, docs_left>>

\* a plausible slip: an executor made without max_workers, one thread per
\* submitted task
TaskStart_unbounded(i) ==
    /\ tasks[i].st = "queued"
    /\ \A j \in 1..(i - 1) : tasks[j].st # "queued"
    /\ tasks' = [tasks EXCEPT ![i].st = "download", ![i].td = TRUE]
    /\ log' = log \cup {<<"info", "tarfile", tasks[i].s3_url, <<>>>>}
    /\ attempted' = attempted \cup {<<tasks[i].output_dir, tasks[i].s3_url>>}
    /\ UNCHANGED <<downloadVars, rangeVars, inputVars, pc, ym, yielded,
                   tar_files_to_download, out, dirs, docs_left>>

\* a free worker thread takes the oldest queued task;
\* extract_refs_for_tarfile, lines 106-110
TaskStart(i) ==
    /\ tasks[i].st = "queued"
    /\ \A j \in 1..(i - 1) : tasks[j].st # "queued"
    /\ Cardinality({j \in 1..Len(tasks) : Running(tasks[j])}) < NUM_DOWNLOAD_THREADS
    /\ tasks' = [tasks EXCEPT ![i].st = "download", ![i].td = TRUE]
    /\ log' = log \cup {<<"info", "tarfile", tasks[i].s3_url, <<>>>>}
    /\ attempted' = attempted \cup {<<tasks[i].output_dir, tasks[i].s3_url>>}
    /\ UNCHANGED <<downloadVars, rangeVars, inputVars, pc, ym, yielded,
                   tar_files_to_download, out, dirs, docs_left>>

\* a plausible slip: a failed download that cancels the tasks still queued
Download_cancels_queue(i) ==
    /\ tasks[i].st = "download"
    /\ \E r \in DownloadOutcomes :
         tasks' = IF r = "raise"
                  THEN [j \in 1..Len(tasks) |->
                          IF j = i
                          THEN [tasks[j] EXCEPT !.st = "raised", !.td = FALSE,
                                                !.fetched = r]
                          ELSE IF tasks[j].st = "queued"
                               THEN [tasks[j] EXCEPT !.st = "raised"]
                               ELSE tasks[j]]
                  ELSE [tasks EXCEPT ![i].st = "unpack", ![i].fetched = r]
    /\ UNCHANGED <<downloadVars, rangeVars, inputVars, pc, ym, yielded,
                   tar_files_to_download, out, dirs, log, attempted, docs_left>>

\* extract_refs_for_tarfile, line 111: download_file; an exception leaves the
\* with block (the workspace is removed) and ends the task, kept in a Future
\* nobody reads
Download(i) ==
    /\ tasks[i].st = "download"
    /\ \E r \in DownloadOutcomes :
         tasks' = IF r = "raise"
                  THEN [tasks EXCEPT ![i].st = "raised", ![i].td = FALSE,
                                     ![i].fetched = r]
                  ELSE [tasks EXCEPT ![i].st = "unpack", ![i].fetched = r]
    /\ UNCHANGED <<downloadVars, rangeVars, inputVars, pc, ym, yielded,
                   tar_files_to_download, out, dirs, log, attempted, docs_left>>

\* extract_refs_for_tarfile, lines 112-124: tar runs (its status is not
\* looked at), glob lists the documents and each is scheduled
Unpack(i) ==
    /\ tasks[i].st = "unpack"
    /\ \E r \in UnpackOutcomes, pdfs \in Archives :
         /\ Cardinality(pdfs) <= docs_left
         /\ docs_left' = docs_left - Cardinality(pdfs)
         /\ tasks' = [tasks EXCEPT
                ![i].st = "join", ![i].unpacked = r,
                ![i].futures = [pdf \in pdfs |-> "pending"]]
    /\ UNCHANGED <<downloadVars, rangeVars, inputVars, pc, ym, yielded,
                   tar_files_to_download, out, dirs, log, attempted>>

\* one pool process runs extract_refs_for_pdf, lines 137-144, under the
\* timeout of line 121
ExtractPdf(i, pdf) ==
    /\ tasks[i].st = "join"
    /\ tasks[i].futures[pdf] = "pending"
    /\ \E r \in PdfOutcomes :
         /\ tasks' = [tasks EXCEPT ![i].futures[pdf] = r]
         /\ out' = IF r \in {"done", "timeout_w"}
                   THEN out \cup {<<tasks[i].output_dir, output_filename(pdf)>>}
                   ELSE out
    /\ log' = log \cup {<<"info", "pdf", tasks[i].s3_url, pdf>>}
    /\ UNCHANGED <<downloadVars, rangeVars, inputVars, pc, ym, yielded,
                   tar_files_to_download, dirs, attempted, docs_left>>

\* future.result() raises TimeoutError, which the loop catches
TimedOut(state) == state \in {"timeout", "timeout_w"}

\* future.result() raises something the except clause does not name
Uncaught(state) == state = "error"

\* the positions the loop of lines 126-132 gets to when futures.items() comes
\* in this order: all of them, or those up to the first uncaught exception
Visited(fs, order) ==
    LET bad == {k \in 1..Len(order) : Uncaught(fs[order[k]])}
    IN  IF bad = {} THEN 1..Len(order)
        ELSE 1..(CHOOSE k \in bad : \A j \in bad : k <= j)

\* a plausible slip: the workspace removed by hand after the loop, not by a
\* with block, so that an exception in the loop leaves it behind
Results_leaks_on_raise(i) ==
    /\ tasks[i].st = "join"
    /\ \A pdf \in DOMAIN tasks[i].futures : tasks[i].futures[pdf] # "pending"
    /\ LET fs == tasks[i].futures
           raises == \E pdf \in DOMAIN fs : Uncaught(fs[pdf])
       IN  /\ tasks' = [tasks EXCEPT
                  ![i].st = IF raises THEN "raised" ELSE "finished",
                  ![i].td = raises]
           /\ \E order \in Orders(DOMAIN fs) :
                log' = log
                  \cup {<<"warning", "timeout", tasks[i].s3_url, order[k]>> :
                          k \in {v \in Visited(fs, order) : TimedOut(fs[order[v]])}}
                  \cup (IF raises THEN {}
                        ELSE {<<"info", "complete", tasks[i].s3_url, <<>>>>})
    /\ UNCHANGED <<downloadVars, rangeVars, inputVars, pc, ym, yielded,
                   tar_files_to_download, out, dirs, attempted, docs_left>>

\* extract_refs_for_tarfile, lines 125-133: pool.join() returns once every
\* task has ended; the results are read in the order glob listed the
\* documents, which is any order; the with block is left
Results(i) ==
    /\ tasks[i].st = "join"
    /\ \A pdf \in DOMAIN tasks[i].futures : tasks[i].futures[pdf] # "pending"
    /\ LET fs == tasks[i].futures
           raises == \E pdf \in DOMAIN fs : Uncaught(fs[pdf])
       IN  /\ tasks' = [tasks EXCEPT
                  ![i].st = IF raises THEN "raised" ELSE "finished",
                  ![i].td = FALSE]
           /\ \E order \in Orders(DOMAIN fs) :
                log' = log
                  \cup {<<"warning", "timeout", tasks[i].s3_url, order[k]>> :
                          k \in {v \in Visited(fs, order) : TimedOut(fs[order[v]])}}
                  \cup (IF raises THEN {}
                        ELSE {<<"info", "complete", tasks[i].s3_url, <<>>>>})
    /\ UNCHANGED <<downloadVars, rangeVars, inputVars, pc, ym, yielded,
                   tar_files_to_download, out, dirs, attempted, docs_left>>

Next ==
    \/ GetManifest
    \/ StartMonth
    \/ EndMonths
    \/ Submit
    \/ ExecutorExit
    \/ \E i \in 1..Len(tasks) : TaskStart(i)
    \/ \E i \in 1..Len(tasks) : Download(i)
    \/ \E i \in 1..Len(tasks) : Unpack(i)
    \/ \E i \in 1..Len(tasks) : \E pdf \in DOMAIN tasks[i].futures : ExtractPdf(i, pdf)
    \/ \E i \in 1..Len(tasks) : Results(i)

Spec == Init /\ [][Next]_vars

\* every thread and pool process that can take a step eventually takes one,
\* and every download and extraction ends (its outcome is one of the steps)
FairSpec == Spec /\ WF_vars(Next)

(***************************************************************************)
(* SpecPool: a run of the cli over one month that selects one archive more *)
(* than the executor has threads; the archives hold no document.           *)
(***************************************************************************)
\* the archive names of the month, in manifest order
PoolTarNames == [i \in 1..(NUM_DOWNLOAD_THREADS + 1) |-> <<"p", i>>]

InitPool ==
    /\ from_year = 2020 /\ from_month = 12
    /\ until_year = 2021 /\ until_month = 1
    /\ manifest = [i \in 1..Len(PoolTarNames) |->
                     [filename |-> PoolTarNames[i],
                      timestamp |-> <<"2", "0", "2", "0", "-", "1", "2", "-", "0", "1">>]]
    /\ already_downloaded = {}
    /\ pc = "get_manifest"
    /\ ym = 0
    /\ yielded = <<>>
    /\ tar_files_to_download = <<>>
    /\ tasks = <<>>
    /\ out = {}
    /\ dirs = {}
    /\ log = {}
    /\ attempted = {}
    /\ docs_left = 0
    /\ download_idle

NextPool ==
    \/ GetManifest
    \/ StartMonth
    \/ EndMonths
    \/ Submit
    \/ ExecutorExit
    \/ \E i \in 1..Len(tasks) : TaskStart(i)
    \/ \E i \in 1..Len(tasks) : Download(i)
    \/ \E i \in 1..Len(tasks) : Unpack(i)
    \/ \E i \in 1..Len(tasks) : Results(i)

SpecPool == InitPool /\ [][NextPool]_vars

(***************************************************************************)
(* SpecRerun: extract_refs_for_tarfile called on an archive, and called    *)
(* again on the same archive with the same output directory once the first *)
(* call has ended.  A call is followed from the point where the archive is *)
(* unpacked and its documents are scheduled.                               *)
(***************************************************************************)
\* extract_refs_for_tarfile, lines 106-124, for an archive that unpacks to pdfs
Scheduled(s3_url, output_dir, pdfs) ==
    [s3_url |-> s3_url, output_dir |-> output_dir,
     st |-> "join", td |-> TRUE, fetched |-> "ok", unpacked |-> "ok",
     futures |-> [pdf \in pdfs |-> "pending"]]

InitRerun ==
    /\ from_year = 2020 /\ from_month = 12
    /\ until_year = 2021 /\ until_month = 1
    /\ manifest = <<>>
    /\ already_downloaded = {}
    /\ pc = "first"
    /\ ym = 0
    /\ yielded = <<>>
    /\ tar_files_to_download = <<>>
    /\ \E pdfs \in Archives :
          tasks = <<Scheduled(TarNames[1], ym_prefix(from_year, from_month), pdfs)>>
    /\ out = {}
    /\ dirs = {ym_prefix(from_year, from_month)}
    /\ log = {}
    /\ attempted = {}
    /\ docs_left = 0
    /\ download_idle

\* the second call, on the same archive and output directory: the same
\* documents are unpacked and scheduled
RunAgain ==
    /\ pc = "first"
    /\ Ended(tasks[1])
    /\ pc' = "second"
    /\ tasks' = Append(tasks, Scheduled(tasks[1].s3_url, tasks[1].output_dir,
                                        DOMAIN tasks[1].futures))
    /\ UNCHANGED <<downloadVars, rangeVars, inputVars, ym, yielded,
                   tar_files_to_download, out, dirs, log, attempted, docs_left>>

NextRerun ==
    \/ RunAgain
    \/ \E i \in 1..Len(tasks) : \E pdf \in DOMAIN tasks[i].futures : ExtractPdf(i, pdf)
    \/ \E i \in 1..Len(tasks) : Results(i)

SpecRerun == InitRerun /\ [][NextRerun]_vars

(***************************************************************************)
(* SpecMonth: extract_refs_for_month called on its own, with or without    *)
(* the already_downloaded argument.                                        *)
(***************************************************************************)
\* the default of already_downloaded (line 76), told apart from every set of
\* archive names
None == {"None"}

\* "item['filename'] not in already_downloaded" is evaluated for an entry
\* whose timestamp starts with the prefix; on None it raises TypeError
select_raises(m, prefix, already) ==
    /\ already = None
    /\ \E i \in 1..Len(m) : startswith(m[i].timestamp, prefix)

InitMonth ==
    /\ \E w \in Windows :
         /\ from_year = w[1] /\ from_month = w[2]
         /\ until_year = w[3] /\ until_month = w[4]
    /\ manifest \in Manifests
    /\ already_downloaded \in
          {None} \cup SUBSET {TarNames[i] : i \in 1..Len(TarNames)}
    /\ pc = "call"
    /\ ym = 0
    /\ yielded = <<>>
    /\ tar_files_to_download = <<>>
    /\ tasks = <<>>
    /\ out = {}
    /\ dirs = {}
    /\ log = {}
    /\ attempted = {}
    /\ docs_left = MaxDocs
    /\ download_idle

\* extract_refs_for_month(year=from_year, month=from_month, ...), lines 78-93:
\* the month's directory is made, then the manifest is filtered, which raises
\* or gives the archives to submit
MonthCall ==
    /\ pc = "call"
    /\ yielded' = <<<<from_year, from_month>>>>
    /\ log' = log \cup {<<"info", "month", <<from_year, from_month>>, <<>>>>}
    /\ dirs' = dirs \cup {ym_prefix(from_year, from_month)}
    /\ IF select_raises(manifest, ym_prefix(from_year, from_month), already_downloaded)
       THEN /\ pc' = "type_error"
            /\ tar_files_to_download' = tar_files_to_download
       ELSE /\ pc' = "submit"
            /\ tar_files_to_download' =
                 select_tar_files(manifest, ym_prefix(from_year, from_month),
                                  already_downloaded)
    /\ tasks' = <<>>
    /\ UNCHANGED <<downloadVars, rangeVars, inputVars, ym, out, attempted, docs_left>>

NextMonth ==
    \/ MonthCall
    \/ Submit
    \/ ExecutorExit
    \/ \E i \in 1..Len(tasks) : TaskStart(i)
    \/ \E i \in 1..Len(tasks) : Download(i)
    \/ \E i \in 1..Len(tasks) : Unpack(i)
    \/ \E i \in 1..Len(tasks) : \E pdf \in DOMAIN tasks[i].futures : ExtractPdf(i, pdf)
    \/ \E i \in 1..Len(tasks) : Results(i)

SpecMonth == InitMonth /\ [][NextMonth]_vars

(***************************************************************************)
(* SpecDL: a run of the cli of bin/pdfdownload.py.                         *)
(***************************************************************************)
\* "if year:" and "if month:" on an option that is None or an int
truthy(opt) == opt # <<>> /\ opt[1] # 0

RECURSIVE split(_, _)
\* s.split(sep) for a one-character sep: the fields, front to back
split(s, sep) ==
    IF \A i \in 1..Len(s) : s[i] # sep THEN <<s>>
    ELSE LET k == CHOOSE i \in 1..Len(s) :
                     s[i] = sep /\ \A j \in 1..(i - 1) : s[j] # sep
         IN  <<SubSeq(s, 1, k - 1)>> \o split(SubSeq(s, k + 1, Len(s)), sep)

RECURSIVE year_filter(_, _)
\* [item for item in manifest if item['timestamp'].startswith(str(year) + '-')]
year_filter(m, year) ==
    IF m = <<>> THEN <<>>
    ELSE (IF startswith(Head(m).timestamp, Decimal(year) \o <<"-">>)
          THEN <<Head(m)>> ELSE <<>>)
         \o year_filter(Tail(m), year)

\* a plausible slip: mm = str(month), the month not padded
mm_unpadded(month) == Decimal(month)

\* mm = "{:02d}".format(month)
mm(month) == Pad2(month)

RECURSIVE month_filter(_, _)
\* [item for item in manifest if item['timestamp'].split('-')[1] == mm]
month_filter(m, month) ==
    IF m = <<>> THEN <<>>
    ELSE (IF split(Head(m).timestamp, "-")[2] = mm(month)
          THEN <<Head(m)>> ELSE <<>>)
         \o month_filter(Tail(m), month)

\* the option values explored: absent, or a year or month of the manifest's
\* timestamps, or a month of none
YearOptions == {<<>>, <<2020>>, <<2021>>}
MonthOptions == {<<>>, <<1>>, <<2>>, <<12>>}

InitDL ==
    /\ opt_year \in YearOptions
    /\ opt_month \in MonthOptions
    /\ manifest \in Manifests
    /\ to_download = <<>>
    /\ pc = "download_cli"
    /\ from_year = 2020 /\ from_month = 1
    /\ until_year = 2020 /\ until_month = 1
    /\ already_downloaded = {}
    /\ ym = 0
    /\ yielded = <<>>
    /\ tar_files_to_download = <<>>
    /\ tasks = <<>>
    /\ out = {}
    /\ dirs = {}
    /\ log = {}
    /\ attempted = {}
    /\ docs_left = 0

\* pdfdownload cli, lines 29-44: get_manifest returns or raises; the manifest
\* is filtered by year, and within that by month; download_check_tarfiles is
\* called with what is left
pdfdownload_cli ==
    /\ pc = "download_cli"
    /\ \E r \in GetManifestOutcomes :
         IF r = "ok"
         THEN /\ pc' = "download_check"
              /\ to_download' =
                   IF truthy(opt_year)
                   THEN IF truthy(opt_month)
                        THEN month_filter(year_filter(manifest, opt_year[1]),
                                          opt_month[1])
                        ELSE year_filter(manifest, opt_year[1])
                   ELSE manifest
         ELSE /\ pc' = "aborted"
              /\ to_download' = to_download
    /\ UNCHANGED <<opt_year, opt_month, rangeVars, inputVars, ym, yielded, monthVars>>

NextDL == pdfdownload_cli

SpecDL == InitDL /\ [][NextDL]_vars

(***************************************************************************)
(* Claims about year_month_iter (checked under SpecYM).                    *)
(***************************************************************************)
\* calendar order on (year, month) pairs
Before(p, q) == p[1] < q[1] \/ (p[1] = q[1] /\ p[2] < q[2])

\* the calendar month that immediately follows p
NextCalendarMonth(p) == IF p[2] = 12 THEN <<p[1] + 1, 1>> ELSE <<p[1], p[2] + 1>>

\* C1: for months in 1..12 and start index <= end index, year_month_iter yields
\* exactly (12*until_year+until_month-1) - (12*from_year+from_month-1) pairs,
\* strictly increasing in calendar order, every month in 1..12.
C1_CountOrderedMonths ==
    (12 * from_year + from_month - 1 <= 12 * until_year + until_month - 1) =>
        /\ \A i \in 1..Len(yielded) : yielded[i][2] \in 1..12
        /\ \A i \in 1..Len(yielded), j \in 1..Len(yielded) :
              i < j => Before(yielded[i], yielded[j])
        /\ pc = "exhausted" =>
              Len(yielded) = (12 * until_year + until_month - 1)
                             - (12 * from_year + from_month - 1)

\* C1 witness: an exhausted range of more than a year
C1_Witness ==
    /\ pc = "exhausted"
    /\ 12 * from_year + from_month - 1 <= 12 * until_year + until_month - 1
    /\ Len(yielded) > 12

\* C2: the pairs run from (from_year, from_month) inclusive to (until_year,
\* until_month) exclusive, each the calendar month after the one before
\* (December of y, then January of y+1); year_month_iter(2020, 11, 2021, 2)
\* yields exactly (2020,11), (2020,12), (2021,1).
C2_CoversHalfOpenRange ==
    /\ yielded # <<>> => yielded[1] = <<from_year, from_month>>
    /\ \A i \in 1..(Len(yielded) - 1) :
          yielded[i + 1] = NextCalendarMonth(yielded[i])
    /\ \A i \in 1..Len(yielded) : yielded[i] # <<until_year, until_month>>
    /\ (pc = "exhausted" /\ yielded # <<>>) =>
          NextCalendarMonth(yielded[Len(yielded)]) = <<until_year, until_month>>
    /\ (/\ pc = "exhausted"
        /\ <<from_year, from_month, until_year, until_month>> = <<2020, 11, 2021, 2>>)
          => yielded = << <<2020, 11>>, <<2020, 12>>, <<2021, 1>> >>

\* C2 witness: the range of the example has been exhausted, across a year's end
C2_Witness ==
    /\ pc = "exhausted"
    /\ <<from_year, from_month, until_year, until_month>> = <<2020, 11, 2021, 2>>
    /\ Len(yielded) = 3
    /\ yielded[2][2] = 12 /\ yielded[3][2] = 1

(***************************************************************************)
(* Claims about a run of the cli (checked under Spec).                     *)
(***************************************************************************)
\* "<year>-<month zero-padded to 2 digits>" for a four-digit year, digit by digit
MonthPrefix(p) ==
    << DigitChar(p[1] \div 1000), DigitChar((p[1] \div 100) % 10),
       DigitChar((p[1] \div 10) % 10), DigitChar(p[1] % 10), "-",
       DigitChar(p[2] \div 10), DigitChar(p[2] % 10) >>

\* the manifest positions a month selects: the timestamp begins with the
\* month's prefix and the filename is not in the already-downloaded set
SelectedAt(p) ==
    {i \in 1..Len(manifest) :
        /\ Len(manifest[i].timestamp) >= 7
        /\ SubSeq(manifest[i].timestamp, 1, 7) = MonthPrefix(p)
        /\ manifest[i].filename \notin already_downloaded}

RECURSIVE NamesInOrder(_, _)
\* the filenames at the positions idx among the first n, in manifest order
NamesInOrder(idx, n) ==
    IF n = 0 THEN <<>>
    ELSE NamesInOrder(idx, n - 1)
         \o (IF n \in idx THEN <<manifest[n].filename>> ELSE <<>>)

\* the archives a month is to submit, in manifest order
ExpectedTars(p) == NamesInOrder(SelectedAt(p), Len(manifest))

\* the month the cli is in, or was in last
CurMonth == yielded[Len(yielded)]

\* C3: when (until_year, until_month) encodes to an index <= that of
\* (from_year, from_month), year_month_iter yields nothing and does not raise,
\* and the cli processes no month: extract_refs_for_month is never entered, no
\* archive is submitted; in particular for 2020-01 .. 2020-01.
C3_EmptyRangeNoMonth ==
    (12 * until_year + until_month - 1 <= 12 * from_year + from_month - 1) =>
        /\ yielded = <<>>
        /\ pc \in {"get_manifest", "months", "done", "aborted"}
        /\ tasks = <<>> /\ attempted = {} /\ dirs = {}
        /\ \A e \in log : e[2] # "month"

\* C3 witness: the cli has returned for from = until = 2020-01 over a
\* manifest that has entries
C3_Witness ==
    /\ pc = "done"
    /\ <<from_year, from_month, until_year, until_month>> = <<2020, 1, 2020, 1>>
    /\ manifest # <<>>
    /\ yielded = <<>>

\* C4: the archives extract_refs_for_month submits are exactly the manifest
\* entries whose timestamp starts with "<year>-<month padded to 2 digits>" and
\* whose filename is not in the already-downloaded set, in manifest order:
\* none else, none omitted.
C4_SubmitsExactlyTheMonthsArchives ==
    yielded # <<>> =>
        /\ tar_files_to_download = ExpectedTars(CurMonth)
        /\ Len(tasks) <= Len(ExpectedTars(CurMonth))
        /\ \A i \in 1..Len(tasks) : tasks[i].s3_url = ExpectedTars(CurMonth)[i]
        /\ pc \in {"months", "done"} => Len(tasks) = Len(ExpectedTars(CurMonth))

\* C4 witness: of two entries of January 2021, the first is in the
\* already-downloaded set and only the second has been submitted; the month
\* is over
C4_Witness ==
    /\ pc = "months" /\ yielded # <<>> /\ CurMonth = <<2021, 1>>
    /\ Len(manifest) = 2
    /\ manifest[1].timestamp = manifest[2].timestamp
    /\ manifest[1].filename \in already_downloaded
    /\ Len(tasks) = 1 /\ tasks[1].s3_url = manifest[2].filename

\* the output files in the task's directory that carry the name of one of its
\* documents
RecordsOf(t) ==
    {f \in out : /\ f[1] = t.output_dir
                 /\ \E pdf \in DOMAIN t.futures : f[2] = output_filename(pdf)}

\* the log holds a warning or an error about the archive that is not the
\* timeout warning of one of its documents
FailureReported(t) ==
    \E e \in log : e[1] \in {"warning", "error"} /\ e[2] # "timeout" /\ e[3] = t.s3_url

\* C5: for an archive with N documents of which exactly K are ended by the
\* timeout and the other N-K extractions succeed, extract_refs_for_tarfile
\* ends without raising and exactly N-K output records exist for the archive.
C5_TimeoutsCostOnlyTheirRecords ==
    \A i \in 1..Len(tasks) :
        LET t == tasks[i]
            N == Cardinality(DOMAIN t.futures)
            K == Cardinality({pdf \in DOMAIN t.futures :
                                t.futures[pdf] \in {"timeout", "timeout_w"}})
        IN  (/\ t.st \in {"finished", "raised"}
             /\ t.unpacked # "-"
             /\ \A pdf \in DOMAIN t.futures :
                   t.futures[pdf] \in {"done", "timeout", "timeout_w"})
            => /\ t.st = "finished"
               /\ Cardinality(RecordsOf(t)) = N - K

\* C6: when the fetch of an archive fails (download error or checksum
\* mismatch), no output record is produced for it and the failure is
\* reported (the siblings go on: see C7).
C6_FailedFetchSkippedAndReported ==
    \A i \in 1..Len(tasks) :
        (tasks[i].st \in {"finished", "raised"} /\ tasks[i].fetched \in {"raise", "badsum"})
        => (RecordsOf(tasks[i]) = {} /\ FailureReported(tasks[i]))

\* the number of months of the requested range
Span ==
    IF 12 * until_year + until_month - 1 > 12 * from_year + from_month - 1
    THEN (12 * until_year + until_month - 1) - (12 * from_year + from_month - 1)
    ELSE 0

\* the archive was entered and did not reach "Tarfile extraction complete"
Failed(a) ==
    /\ <<"info", "tarfile", a[2], <<>>>> \in log
    /\ <<"info", "complete", a[2], <<>>>> \notin log

\* C7: a failure while processing one archive (fetch, unpack, extraction
\* exception, timeout) never keeps another selected archive, of the same or of
\* a later month, from being submitted and run to its end: every selected
\* archive of every month of the range is attempted.
C7_EveryArchiveAttempted ==
    /\ pc = "aborted" => yielded = <<>>
    /\ pc = "done" => Len(yielded) = Span
    /\ (pc \in {"months", "done"}) =>
          \A i \in 1..Len(tasks) : tasks[i].st \in {"finished", "raised"}
    /\ \A k \in 1..Len(yielded) :
          (k < Len(yielded) \/ pc \in {"months", "done"}) =>
             \A i \in SelectedAt(yielded[k]) :
                <<MonthPrefix(yielded[k]), manifest[i].filename>> \in attempted

\* C7 witness: the cli has returned; an archive of one month failed and an
\* archive of another month ran to "Tarfile extraction complete"
C7_Witness ==
    /\ pc = "done"
    /\ \E a \in attempted, b \in attempted :
          a[1] # b[1] /\ Failed(a) /\ ~Failed(b)

\* C7 witness of the same month: both archives of the month were entered, one
\* failed, the other ran to its end
C7_WitnessSameMonth ==
    /\ pc = "done"
    /\ \E a \in attempted, b \in attempted :
          a[1] = b[1] /\ a[2] # b[2] /\ Failed(a) /\ ~Failed(b)

\* C8: once the manifest is obtained, and as every download and extraction
\* ends, the cli eventually returns normally, every month of the range
\* processed, whatever failed.
C8_RunTerminates ==
    (pc = "months" /\ yielded = <<>>) ~> (pc = "done" /\ Len(yielded) = Span)

\* C8 witness: the cli has returned after two months in which an archive
\* failed and a document timed out
C8_Witness ==
    /\ pc = "done" /\ Len(yielded) = 2
    /\ \E a \in attempted : Failed(a)
    /\ \E e \in log : e[2] = "timeout"

\* C9: on every exit path of extract_refs_for_tarfile the workspace is gone
\* when the call ends: only an archive in flight has a workspace, so there
\* are never more workspaces than archives in flight, none when the month ends.
C9_WorkspaceScoped ==
    /\ \A i \in 1..Len(tasks) :
          tasks[i].td => tasks[i].st \in {"download", "unpack", "join"}
    /\ Cardinality({i \in 1..Len(tasks) : tasks[i].td})
          <= Cardinality({i \in 1..Len(tasks) :
                            tasks[i].st \in {"download", "unpack", "join"}})
    /\ pc \in {"months", "done"} => \A i \in 1..Len(tasks) : ~tasks[i].td

\* C9 witness: one archive has left by an exception of the results loop and
\* has no workspace, while another is in flight with its own
C9_Witness ==
    \E i \in 1..Len(tasks), j \in 1..Len(tasks) :
        /\ tasks[i].st = "raised" /\ tasks[i].unpacked # "-" /\ ~tasks[i].td
        /\ tasks[j].st = "join" /\ tasks[j].td

\* C10: when the extraction raises for a document, the exception is caught
\* at the per-archive stage: extract_refs_for_tarfile does not raise and the
\* failure is reported.
C10_ExtractionErrorCaught ==
    \A i \in 1..Len(tasks) :
        \A pdf \in DOMAIN tasks[i].futures :
            (tasks[i].st \in {"finished", "raised"} /\ tasks[i].futures[pdf] = "error")
            => /\ tasks[i].st = "finished"
               /\ \E e \in log : /\ e[1] \in {"warning", "error"}
                                 /\ e[3] = tasks[i].s3_url /\ e[4] = pdf

\* C11: when get_manifest fails the run is over before any work: no month is
\* processed, no month directory is made, no archive is downloaded and no
\* extraction is started.
C11_ManifestFailureAbortsBeforeWork ==
    pc = "aborted" =>
        /\ yielded = <<>> /\ ym = 0
        /\ dirs = {} /\ out = {} /\ log = {}
        /\ tar_files_to_download = <<>> /\ tasks = <<>> /\ attempted = {}

\* C11 witness: the run is over by a failed get_manifest although the range
\* has months and the manifest an entry of its first month
C11_Witness ==
    /\ pc = "aborted"
    /\ Span > 0
    /\ \E i \in 1..Len(manifest) :
          /\ startswith(manifest[i].timestamp, MonthPrefix(<<from_year, from_month>>))
          /\ manifest[i].filename \notin already_downloaded

\* the path extract_refs_for_pdf writes for document pdf of task t
OutputPath(t, pdf) == <<t.output_dir, output_filename(pdf)>>

\* C12: no two extractions that can run at the same time (documents of one
\* archive, or of two archives of the same month) write the same output path:
\* distinct documents have distinct output filenames.
C12_DistinctDocumentsDistinctPaths ==
    \A i \in 1..Len(tasks), j \in 1..Len(tasks) :
        \A p \in DOMAIN tasks[i].futures, q \in DOMAIN tasks[j].futures :
            (/\ tasks[i].st = "join" /\ tasks[j].st = "join"
             /\ <<i, p>> # <<j, q>>)
            => OutputPath(tasks[i], p) # OutputPath(tasks[j], q)

\* C14: the months are processed one at a time in increasing calendar order:
\* a month is entered only when every archive of the month before has been
\* submitted and has ended, every archive submitted or started belongs to the
\* month the cli is in, and the archives of a month are submitted in the order
\* of the filtered manifest.
C14_MonthsInOrderOneAtATime ==
    [][ /\ (yielded' # yielded) =>
              /\ Len(yielded') = Len(yielded) + 1
              /\ SubSeq(yielded', 1, Len(yielded)) = yielded
              /\ yielded # <<>> => Before(CurMonth, yielded'[Len(yielded')])
              /\ Len(tasks) = Len(tar_files_to_download)
              /\ \A i \in 1..Len(tasks) : tasks[i].st \in {"finished", "raised"}
              /\ tasks' = <<>>
        /\ (Len(tasks') > Len(tasks)) =>
              /\ yielded' = yielded
              /\ Len(tasks') = Len(tasks) + 1
              /\ SubSeq(tasks', 1, Len(tasks)) = tasks
              /\ tasks'[Len(tasks')].s3_url = ExpectedTars(CurMonth)[Len(tasks')]
              /\ tasks'[Len(tasks')].output_dir = MonthPrefix(CurMonth)
        /\ \A a \in attempted' \ attempted : a[1] = MonthPrefix(CurMonth)
      ]_vars

\* C14 witness: an archive of the second month is in flight after an archive
\* of the first month was run, and two archives of a month have been
\* submitted
C14_Witness ==
    /\ pc = "submit" /\ Len(yielded) = 2
    /\ \E a \in attempted : a[1] = MonthPrefix(yielded[1])
    /\ \E i \in 1..Len(tasks) : tasks[i].st \in {"download", "unpack", "join"}

\* C14 witness of the order within a month: two archives of one month are
\* submitted, the first of the manifest first
C14_WitnessSubmitOrder ==
    /\ Len(tasks) = 2 /\ Len(manifest) = 2
    /\ tasks[1].s3_url = manifest[1].filename
    /\ tasks[2].s3_url = manifest[2].filename

\* C16: for every document whose extraction is ended by the timeout, the
\* per-archive stage has logged a timeout warning by the time it ends,
\* whatever happened to the other documents of the archive.
C16_EveryTimeoutLogged ==
    \A i \in 1..Len(tasks) :
        \A pdf \in DOMAIN tasks[i].futures :
            (/\ tasks[i].st \in {"finished", "raised"}
             /\ tasks[i].futures[pdf] \in {"timeout", "timeout_w"})
            => <<"warning", "timeout", tasks[i].s3_url, pdf>> \in log

\* C17: an archive that was downloaded and fails to unpack is reported and
\* skipped: none of its documents is scheduled and no output record is made.
C17_FailedUnpackSkippedAndReported ==
    \A i \in 1..Len(tasks) :
        tasks[i].unpacked = "fail" =>
            /\ DOMAIN tasks[i].futures = {}
            /\ RecordsOf(tasks[i]) = {}
            /\ tasks[i].st \in {"finished", "raised"} => FailureReported(tasks[i])

\* C18: from an empty output directory, the record of a document exists after
\* the per-archive stage only if the document's extraction returned: a
\* document whose extraction raised or was ended by the timeout has no file.
C18_RecordOnlyAfterExtractionReturned ==
    \A i \in 1..Len(tasks) :
        \A pdf \in DOMAIN tasks[i].futures :
            (/\ tasks[i].st \in {"finished", "raised"}
             /\ OutputPath(tasks[i], pdf) \in out)
            => tasks[i].futures[pdf] \in {"done", "timeout_w"}

(***************************************************************************)
(* Claims about the executor's threads (checked under SpecPool).           *)
(***************************************************************************)
\* the archives being downloaded or processed
InFlight == {i \in 1..Len(tasks) : tasks[i].st \in {"download", "unpack", "join"}}

\* C15: at most NUM_DOWNLOAD_THREADS (4) archives are being downloaded or
\* processed at the same time, however many the month selects; the others
\* wait, and one starts only when a worker is free.
C15_AtMostFourInFlight ==
    /\ Cardinality(InFlight) <= 4
    /\ \A i \in 1..Len(tasks) :
          (tasks[i].st = "queued" /\ Cardinality(InFlight) < 4) =>
             \A j \in (i + 1)..Len(tasks) : tasks[j].st = "queued"

\* C15 witness: the month selected five archives, four are in flight and the
\* fifth waits in the queue
C15_Witness ==
    /\ Len(tar_files_to_download) = 5 /\ Len(tasks) = 5
    /\ Cardinality(InFlight) = 4
    /\ tasks[5].st = "queued"

(***************************************************************************)
(* Claims about a second call on the same archive (checked under           *)
(* SpecRerun).                                                             *)
(***************************************************************************)
\* the base name with its ".pdf" ending exchanged for "-refs.json.gz"
RecordName(base) == SubSeq(base, 1, Len(base) - 1) \o <<"-refs.json.gz">>

\* the documents of the call whose extraction got as far as opening the record
Wrote(t) == {pdf \in DOMAIN t.futures : t.futures[pdf] \in {"done", "timeout_w"}}

\* the record names the call has written
NamesWritten(t) == {RecordName(pdf.base) : pdf \in Wrote(t)}

\* the record names in the output directory of call t
NamesIn(t) == {f[2] : f \in {g \in out : g[1] = t.output_dir}}

\* C13 as stated: the output name is a function of the document's base name
\* alone, and after a second call on the same archive and output directory
\* the set of output file names is exactly the set the first call left.
C13_SecondRunLeavesSameNames ==
    /\ \A i \in 1..Len(tasks) : \A pdf \in DOMAIN tasks[i].futures :
          output_filename(pdf) = RecordName(pdf.base)
    /\ (pc = "second" /\ Ended(tasks[2])) => NamesIn(tasks[1]) = NamesWritten(tasks[1])

\* C13 amended: the output name is a function of the document's base name
\* alone, and after a second call on the same archive and output directory
\* the output file names are those the first call left together with those of
\* the documents the second call wrote a record for, one file per name: the
\* same set as after one call whenever the second call writes no record for
\* a document the first call wrote none for.
C13_SecondRunAddsOnlyItsOwnNames ==
    /\ \A i \in 1..Len(tasks) : \A pdf \in DOMAIN tasks[i].futures :
          output_filename(pdf) = RecordName(pdf.base)
    /\ \A f \in out : f[1] = tasks[1].output_dir
    /\ pc = "first" => NamesIn(tasks[1]) = NamesWritten(tasks[1])
    /\ pc = "second" =>
          /\ NamesIn(tasks[1]) = NamesWritten(tasks[1]) \cup NamesWritten(tasks[2])
          /\ NamesWritten(tasks[2]) \subseteq NamesWritten(tasks[1])
                => NamesIn(tasks[1]) = NamesWritten(tasks[1])

\* C13 witness: both calls have ended, each wrote the record of the same
\* document, and the directory holds that one record
C13_Witness ==
    /\ pc = "second" /\ Ended(tasks[2])
    /\ Wrote(tasks[1]) # {} /\ Wrote(tasks[2]) = Wrote(tasks[1])
    /\ Cardinality(out) = Cardinality(NamesWritten(tasks[1]))

(***************************************************************************)
(* Claims about extract_refs_for_month called on its own (checked under    *)
(* SpecMonth).                                                             *)
(***************************************************************************)
\* the manifest positions whose timestamp begins with the month's prefix
MatchingAt(p) ==
    {i \in 1..Len(manifest) :
        /\ Len(manifest[i].timestamp) >= 7
        /\ SubSeq(manifest[i].timestamp, 1, 7) = MonthPrefix(p)}

\* C19: extract_refs_for_month called without already_downloaded (None)
\* behaves as with the empty set: the call does not raise and every manifest
\* entry whose timestamp matches the month's prefix is submitted.
C19_NoneIsTheEmptySet ==
    already_downloaded = None =>
        /\ pc # "type_error"
        /\ pc \in {"submit", "months"} =>
              tar_files_to_download =
                 NamesInOrder(MatchingAt(<<from_year, from_month>>), Len(manifest))
        /\ pc = "months" =>
              \A i \in MatchingAt(<<from_year, from_month>>) :
                 \E a \in attempted : a[2] = manifest[i].filename

(***************************************************************************)
(* Claims about the cli of pdfdownload (checked under SpecDL).             *)
(***************************************************************************)
\* the timestamp begins with the four digits of the year and a "-"
BeginsWithYear(ts, y) ==
    /\ Len(ts) >= 5
    /\ SubSeq(ts, 1, 5) = << DigitChar(y \div 1000), DigitChar((y \div 100) % 10),
                             DigitChar((y \div 10) % 10), DigitChar(y % 10), "-" >>

\* the characters between the first "-" and the next one, or the end
SecondField(ts) ==
    LET dashes == {i \in 1..Len(ts) : ts[i] = "-"}
        d1 == CHOOSE i \in dashes : \A j \in dashes : i <= j
        later == dashes \ {d1}
        d2 == IF later = {} THEN Len(ts) + 1
              ELSE CHOOSE i \in later : \A j \in later : i <= j
    IN  SubSeq(ts, d1 + 1, d2 - 1)

RECURSIVE EntriesInOrder(_, _)
\* the manifest entries at the positions idx among the first n, in manifest
\* order
EntriesInOrder(idx, n) ==
    IF n = 0 THEN <<>>
    ELSE EntriesInOrder(idx, n - 1) \o (IF n \in idx THEN <<manifest[n]>> ELSE <<>>)

\* the positions of the entries of the year
OfYear(y) == {i \in 1..Len(manifest) : BeginsWithYear(manifest[i].timestamp, y)}

\* the positions of the entries of the year whose second field is the month
\* in two digits
OfYearAndMonth(y, m) ==
    {i \in OfYear(y) :
        SecondField(manifest[i].timestamp) = <<DigitChar(m \div 10), DigitChar(m % 10)>>}

C20_WitnessMonthAlone ==
    /\ pc = "download_check"
    /\ opt_year = <<>> /\ opt_month = <<12>>
    /\ Len(manifest) = 2 /\ to_download = manifest
    /\ manifest[1].timestamp # manifest[2].timestamp

====
